---- MODULE Spec2Model ----
(***************************************************************************)
(* Model of the screen capture subsystem (src/src/app/capture.rs): the     *)
(* Capture object driven by the render loop, the rayon worker pool that    *)
(* runs the tasks spawned by screen_grab, and the capture directory on     *)
(* the file system; and of the frame driver (src/src/app/mod.rs): the App  *)
(* object, its event handlers and its update step.                         *)
(***************************************************************************)
EXTENDS Integers, Sequences, FiniteSets, TLC

\* ------------------------------------------------------------------ bounds

\* Largest number of images grabbed in one behaviour (guards `seq += 1`).
MaxSeq == 3
\* Window width and height range over 1..MaxDim.
MaxDim == 2
\* The framebuffer contents glReadPixels may deliver: byte ramps of these steps.
Patterns == {1, 2}
\* Largest number of App methods called in one behaviour.
MaxCalls == 3

\* -------------------------------------------------------- program constants

\* format!("{:08}.png", self.seq): minimum field width of the number.
PadWidth == 8
\* One byte per channel.
ByteRange == 256
\* Bytes per pixel (gl::RGB, gl::UNSIGNED_BYTE).
Channels == 3

\* CAPTURE_FILENAME_PREFIX as character codes; the constant is defined outside
\* capture.rs and "cap_" stands for it.
capture_prefix == <<99, 97, 112, 95>>
\* CAPTURE_FOLDER joined with the construction timestamp: one fixed directory.
capture_path == "capture/timestamp"
\* ".png"
PngSuffix == <<46, 112, 110, 103>>

\* math::MovingAverage::new(120): the window of the frame time smoother.
SmoothWindow == 120
\* Number of entries of init_lights() and of init_backgrounds().
NumLights == 9
NumBackgrounds == 7
\* Position::new(10.0, 10.0): both coordinates of the initial light position.
LightStart == 10

VARIABLES
    seq,         \* Capture.seq
    enabled,     \* Capture.enabled
    images,      \* Capture.images
    w, h,        \* Capture.w, Capture.h
    pool,        \* closures given to rayon::spawn, in spawn order, each with its pc
    dir_exists,  \* file system: the capture directory exists
    files,       \* file system: path -> image, for the files in the directory
    alive,       \* the process is running (FALSE after a panic)
    assigned,    \* history: the sequence numbers given to images, in order
    call,        \* history: the last Capture method called by the render loop
    app,         \* the App object, one field per field of struct App
    app_call,    \* history: the last App method called, what it did and returned
    raw_times,   \* history: frame_time of every update() that returned Ok
    calls_made   \* history: number of App methods called so far

appvars == <<app, app_call, raw_times, calls_made>>

vars == <<seq, enabled, images, w, h, pool, dir_exists, files, alive, assigned, call,
          appvars>>

\* ------------------------------------------------------------ file names

RECURSIVE Digits(_)
\* Decimal digits of n as character codes, most significant first.
Digits(n) == IF n < 10 THEN <<48 + n>> ELSE Append(Digits(n \div 10), 48 + (n % 10))

RECURSIVE ZeroPad(_, _)
\* {:0width}: pads on the left with '0' up to width, never truncates.
ZeroPad(ds, width) == IF Len(ds) >= width THEN ds ELSE ZeroPad(<<48>> \o ds, width)

\* self.capture_prefix.clone() + &format!("{:08}.png", self.seq)
FileName(n) == capture_prefix \o ZeroPad(Digits(n), PadWidth) \o PngSuffix

\* self.capture_path.join(filename)
FullPath(n) == <<capture_path, FileName(n)>>

\* ------------------------------------------------------------- pixel data

\* Contents glReadPixels may leave in a buffer of n bytes.
Framebuffers(n) ==
    { [k \in 1..n |-> (k * p + 16 * p) % ByteRange] : p \in Patterns }

\* vec![0u8; w * h * 3] filled by gl::ReadPixels(0, 0, w, h, RGB, UNSIGNED_BYTE, ..)
ReadPixels(ww, hh) == Framebuffers(ww * hh * Channels)

\* Variant of FlipRows that copies the rows in readback order.
NoFlipRows(ww, hh, buf) ==
    [xy \in (0..(ww - 1)) \X (0..(hh - 1)) |->
        LET j == xy[1]
            i == xy[2]
            base == Channels * (j + i * ww)
        IN  <<buf[base + 1], buf[base + 2], buf[base + 3]>>]

\* The loop of the spawned closure: img.put_pixel(j, i, Rgb([r, g, b])) for every
\* i in 0..h, j in 0..w (buf is 0-indexed in the source, 1-indexed here).
FlipRows(ww, hh, buf) ==
    [xy \in (0..(ww - 1)) \X (0..(hh - 1)) |->
        LET j == xy[1]
            i == xy[2]
            base == Channels * (j + (hh - i - 1) * ww)
        IN  <<buf[base + 1], buf[base + 2], buf[base + 3]>>]

\* ---------------------------------------------------- the Capture methods
\* Each method is an operator on a record s holding the fields it reads and
\* writes (seq, enabled, images), the file system (dir_exists, files) and what
\* the call did so far: flushes (calls of flush), mkdir (result of
\* create_dir_all), errors (error! records logged), reads (gl::ReadPixels
\* calls), spawned (tasks given to rayon::spawn), numbered (sequence numbers
\* given to images), saved (images written by flush), panicked (an expect()
\* failed).

\* The record a call starts from.
Begin ==
    [seq |-> seq, enabled |-> enabled, images |-> images,
     dir_exists |-> dir_exists, files |-> files,
     flushes |-> 0, mkdir |-> "none", errors |-> 0, reads |-> 0,
     spawned |-> <<>>, numbered |-> <<>>, saved |-> 0, panicked |-> FALSE]

\* Outcomes of create_dir_all: Ok when the directory is there already,
\* otherwise it is created or the creation fails.
MkdirOutcomes == IF dir_exists THEN {"ok"} ELSE {"ok", "err"}

\* Outcomes of img.save(full_path): it cannot succeed without the directory.
SaveOutcomes == IF dir_exists THEN {TRUE, FALSE} ELSE {FALSE}

\* f with path p bound to image img (File::create truncates an existing file).
WriteFile(f, p, img) ==
    [q \in (DOMAIN f) \cup {p} |-> IF q = p THEN img ELSE f[q]]

RECURSIVE flush_images(_, _, _, _)
\* for img in &self.images { self.seq += 1; ...; img.save(full_path).expect(..) }
\* from the k-th image on; the failAt-th save fails (0: none does).
flush_images(s, imgs, k, failAt) ==
    IF k > Len(imgs) THEN s
    ELSE LET t == [s EXCEPT !.seq = s.seq + 1,
                            !.numbered = Append(s.numbered, s.seq + 1)]
         IN  IF k = failAt
             THEN [t EXCEPT !.panicked = TRUE]
             ELSE flush_images(
                      [t EXCEPT !.files = WriteFile(t.files, FullPath(t.seq), imgs[k]),
                                !.saved = t.saved + 1],
                      imgs, k + 1, failAt)

\* Variant of flush that unwraps the result of create_dir_all.
flush_unwrap(s, mk, failAt) ==
    LET t == [s EXCEPT !.flushes = s.flushes + 1, !.mkdir = mk]
    IN  IF mk = "ok"
        THEN [flush_images([t EXCEPT !.dir_exists = TRUE], t.images, 1, failAt)
                 EXCEPT !.images = <<>>]
        ELSE [t EXCEPT !.panicked = TRUE]

\* fn flush(&mut self); self.images.clear() is not reached after a panic.
flush(s, mk, failAt) ==
    LET t == [s EXCEPT !.flushes = s.flushes + 1, !.mkdir = mk]
        u == IF mk = "ok"
             THEN flush_images([t EXCEPT !.dir_exists = TRUE], t.images, 1, failAt)
             ELSE [t EXCEPT !.errors = t.errors + 1]
    IN  IF u.panicked THEN u ELSE [u EXCEPT !.images = <<>>]

\* Variant of start that restarts the numbering.
start_reset(s) == [s EXCEPT !.enabled = TRUE, !.seq = 0]

\* pub fn start(&mut self)
start(s) == [s EXCEPT !.enabled = TRUE]

\* Variant of stop without the enabled test around flush.
stop_always_flush(s, mk, failAt) ==
    LET t == flush(s, mk, failAt)
    IN  IF t.panicked THEN t ELSE [t EXCEPT !.enabled = FALSE]

\* pub fn stop(&mut self)
stop(s, mk, failAt) ==
    LET t == IF s.enabled THEN flush(s, mk, failAt) ELSE s
    IN  IF t.panicked THEN t ELSE [t EXCEPT !.enabled = FALSE]

\* pub fn enabled(&self) -> bool
is_enabled(s) == s.enabled

\* Variant of toggle that stops a running capture and starts none.
toggle_stop_only(s, mk, failAt) == IF s.enabled THEN stop(s, mk, failAt) ELSE s

\* pub fn toggle(&mut self)
toggle(s, mk, failAt) == IF s.enabled THEN stop(s, mk, failAt) ELSE start(s)

\* Variant of enable without the comparison with the current state.
enable_always(s, flag, mk, failAt) == toggle(s, mk, failAt)

\* pub fn enable(&mut self, enabled: bool)
enable(s, flag, mk, failAt) ==
    IF flag # s.enabled THEN toggle(s, mk, failAt) ELSE s

\* The closure given to rayon::spawn, before it runs: it owns buf, full_path,
\* w and h.
Task(path, buf, ww, hh) ==
    [path |-> path, buf |-> buf, w |-> ww, h |-> hh, pc |-> "spawned"]

\* Variant of screen_grab that keeps the image in self.images for flush.
grab_buffered(s, ww, hh, buf) ==
    IF s.enabled
    THEN [s EXCEPT !.reads = s.reads + 1,
                   !.images = Append(s.images, FlipRows(ww, hh, buf))]
    ELSE s

\* Variant of screen_grab without the enabled test.
grab_when_disabled(s, ww, hh, buf) ==
    LET t == [s EXCEPT !.reads = s.reads + 1, !.seq = s.seq + 1,
                       !.numbered = Append(s.numbered, s.seq + 1)]
    IN  [t EXCEPT !.spawned = Append(t.spawned, Task(FullPath(t.seq), buf, ww, hh))]

\* Variant of screen_grab without self.seq += 1.
grab_no_increment(s, ww, hh, buf) ==
    IF s.enabled
    THEN LET t == [s EXCEPT !.reads = s.reads + 1,
                            !.numbered = Append(s.numbered, s.seq)]
         IN  [t EXCEPT !.spawned = Append(t.spawned, Task(FullPath(t.seq), buf, ww, hh))]
    ELSE s

\* pub fn screen_grab(&mut self); buf is what gl::ReadPixels delivered.
screen_grab(s, ww, hh, buf) ==
    IF s.enabled
    THEN LET t == [s EXCEPT !.reads = s.reads + 1, !.seq = s.seq + 1,
                            !.numbered = Append(s.numbered, s.seq + 1)]
         IN  [t EXCEPT !.spawned = Append(t.spawned, Task(FullPath(t.seq), buf, ww, hh))]
    ELSE s

\* ------------------------------------------------------------ f32 values

\* An f32 value is modelled by the exact fraction <<numerator, denominator>>
\* in lowest terms with a positive denominator: no rounding, no NaN.
RECURSIVE Gcd(_, _)
Gcd(a, b) == IF b = 0 THEN a ELSE Gcd(b, a % b)

Abs(n) == IF n < 0 THEN 0 - n ELSE n

Frac(n, d) ==
    LET s == IF d < 0 THEN 0 - 1 ELSE 1
        g == Gcd(Abs(n), Abs(d))
    IN  <<(s * n) \div g, (s * d) \div g>>

Num(n) == <<n, 1>>
RAdd(a, b) == Frac(a[1] * b[2] + b[1] * a[2], a[2] * b[2])
RSub(a, b) == Frac(a[1] * b[2] - b[1] * a[2], a[2] * b[2])
RMul(a, b) == Frac(a[1] * b[1], a[2] * b[2])
RDiv(a, b) == Frac(a[1] * b[2], a[2] * b[1])
Half == <<1, 2>>

\* cgmath::Vector2<f32>, which Position is.
Position(x, y) == <<Num(x), Num(y)>>
VAdd(p, q) == <<RAdd(p[1], q[1]), RAdd(p[2], q[2])>>
VScale(p, k) == <<RMul(p[1], k), RMul(p[2], k)>>

RECURSIVE SumSeq(_)
SumSeq(xs) == IF Len(xs) = 0 THEN 0 ELSE xs[1] + SumSeq(Tail(xs))

\* --------------------------------------------------- the parts of an App

\* Viewport::rect
rect(width, height, scale) ==
    [width |-> width, height |-> height, ratio |-> Frac(width, height),
     scale |-> scale]

\* Viewport::to_world: window pixels to view coordinates.
Viewport_to_world(vp, x, y) ==
    LET dx == RDiv(Num(vp.width), vp.scale)
        tx == RDiv(RSub(x, RMul(Num(vp.width), Half)), dx)
        ty == RDiv(RSub(RMul(Num(vp.height), Half), y), dx)
    IN  <<tx, ty>>

\* input::InputState: the keys held down, the presses not yet read by
\* key_once, and the mouse position in window pixels.
InputState_default == [held |-> {}, once |-> {}, mouse |-> Position(0, 0)]

\* InputState::event
InputState_event(st, e) ==
    CASE e.type = "KeyDown" ->
             [st EXCEPT !.held = @ \cup {e.key},
                        !.once = IF e.key \in st.held THEN @ ELSE @ \cup {e.key}]
      [] e.type = "KeyUp" -> [st EXCEPT !.held = @ \ {e.key}]
      [] e.type = "MouseMove" -> [st EXCEPT !.mouse = e.pos]

key_pressed(st, key) == key \in st.held
\* key_once answers for one press once: reading it resets it.
key_once(st, key) == key \in st.once
key_once_read(st, key) == [st EXCEPT !.once = @ \ {key}]
any_ctrl_pressed(st) == "Ctrl" \in st.held
mouse_position(st) == st.mouse

\* math::MovingAverage: the mean of the last SmoothWindow samples.
MovingAverage_new(n) == [window |-> n, samples |-> <<>>]

MovingAverage_push(m, x) ==
    LET all == Append(m.samples, x)
    IN  [m EXCEPT !.samples = IF Len(all) > m.window
                               THEN SubSeq(all, Len(all) - m.window + 1, Len(all))
                               ELSE all]

MovingAverage_smooth(m, x) ==
    LET kept == MovingAverage_push(m, x).samples
    IN  Frac(SumSeq(kept), Len(kept))

\* math::Inertial: directional pushes accumulate in the velocity, update
\* integrates the position over dt and lets the pushes die out.
init_camera == [position |-> Position(0, 0), velocity |-> Position(0, 0)]

Direction(d) ==
    CASE d = "Up" -> Position(0, 1)
      [] d = "Down" -> Position(0, 0 - 1)
      [] d = "Left" -> Position(0 - 1, 0)
      [] d = "Right" -> Position(1, 0)

Inertial_push(c, d) == [c EXCEPT !.velocity = VAdd(@, Direction(d))]
Inertial_reset(c) == [c EXCEPT !.position = Position(0, 0), !.velocity = Position(0, 0)]
Inertial_update(c, dt) ==
    [c EXCEPT !.position = VAdd(@, VScale(c.velocity, dt)),
              !.velocity = Position(0, 0)]

\* util::Cycle over n items: the index of the current item.
Cycle_new(n) == [len |-> n, index |-> 0]
Cycle_next(c) == [c EXCEPT !.index = (@ + 1) % c.len]
Cycle_prev(c) == [c EXCEPT !.index = (@ + c.len - 1) % c.len]

init_lights == Cycle_new(NumLights)
init_backgrounds == Cycle_new(NumBackgrounds)

\* world::World: the entities in creation order; an entity's id is its index.
World_new == <<>>
World_new_resource(world, pos) ==
    [world |-> Append(world, [kind |-> "resource", pos |-> pos]), id |-> Len(world) + 1]
World_new_minion(world, pos) ==
    [world |-> Append(world, [kind |-> "minion", pos |-> pos]), id |-> Len(world) + 1]
World_friend_mut(world, id) == id \in 1..Len(world)

\* The subsystems (Updateable). The model keeps of each how often its init
\* ran, of the physics the entities registered, of the AI the target.
AnimationSystem_new == [inits |-> 0]
GameSystem_new == [inits |-> 0]
AiSystem_new == [inits |-> 0, target |-> Position(0, 0)]
PhysicsSystem_new == [inits |-> 0, registered |-> <<>>]
System_init(sys) == [sys EXCEPT !.inits = @ + 1]
AiSystem_follow_me(sys, pos) == [sys EXCEPT !.target = pos]
PhysicsSystem_register(sys, id) == [sys EXCEPT !.registered = Append(@, id)]

\* ---------------------------------------------------- the methods of App

\* ev::Event; pos is read of MoveLight, NewMinion and NewResource only.
Event(type) == [type |-> type, pos |-> Position(0, 0)]
EventAt(type, pos) == [type |-> type, pos |-> pos]

\* One call made on a part of the App by a method of the App.
UpdateCall(sys, op, dt) == [sys |-> sys, op |-> op, dt |-> dt, pos |-> Position(0, 0)]
TargetCall(sys, op, pos) == [sys |-> sys, op |-> op, dt |-> Num(0), pos |-> pos]

\* App::new at the instant now.
App_new(width, height, scale, now) ==
    [viewport |-> rect(width, height, scale),
     input_state |-> InputState_default,
     wall_clock_start |-> now,
     frame_count |-> 0,
     frame_start |-> now,
     frame_elapsed |-> Num(0),
     frame_smooth |-> MovingAverage_new(SmoothWindow),
     is_running |-> TRUE,
     light_position |-> Position(LightStart, LightStart),
     camera |-> init_camera,
     lights |-> init_lights,
     backgrounds |-> init_backgrounds,
     world |-> World_new,
     physics |-> PhysicsSystem_new,
     animation |-> AnimationSystem_new,
     game |-> GameSystem_new,
     ai |-> AiSystem_new]

\* What a method hands back: the App after it, its result, the calls it made
\* on the parts, the events update_input built and the Update it reports.
NoReport ==
    [frame_count |-> 0, wall_clock_elapsed |-> 0, frame_elapsed |-> Num(0),
     frame_time |-> 0, frame_time_smooth |-> Num(0), fps |-> Num(0)]

Done(a, trace) ==
    [app |-> a, result |-> "Ok", trace |-> trace, events |-> <<>>,
     report |-> NoReport]

\* register: the entity is looked up again and handed to the physics. The
\* lookup of an id the World has just returned succeeds.
register(a, id) ==
    IF World_friend_mut(a.world, id)
    THEN [a EXCEPT !.physics = PhysicsSystem_register(@, id)]
    ELSE a

new_resource(a, pos) ==
    LET made == World_new_resource(a.world, pos)
    IN  register([a EXCEPT !.world = made.world], made.id)

\* Variant of new_minion that also moves the light onto the new minion.
new_minion_lit(a, pos) ==
    LET made == World_new_minion(a.world, pos)
    IN  register([a EXCEPT !.world = made.world, !.light_position = pos], made.id)

new_minion(a, pos) ==
    LET made == World_new_minion(a.world, pos)
    IN  register([a EXCEPT !.world = made.world], made.id)

\* Variant of quit that also restarts the frame counter.
quit_restarts_count(a) == [a EXCEPT !.is_running = FALSE, !.frame_count = 0]

\* pub fn quit(&mut self)
quit(a) == [a EXCEPT !.is_running = FALSE]

is_running(a) == a.is_running

on_app_event(a, e) ==
    CASE e.type = "CamUp" -> [a EXCEPT !.camera = Inertial_push(@, "Up")]
      [] e.type = "CamDown" -> [a EXCEPT !.camera = Inertial_push(@, "Down")]
      [] e.type = "CamLeft" -> [a EXCEPT !.camera = Inertial_push(@, "Left")]
      [] e.type = "CamRight" -> [a EXCEPT !.camera = Inertial_push(@, "Right")]
      [] e.type = "CamReset" -> [a EXCEPT !.camera = Inertial_reset(@)]
      [] e.type = "NextLight" -> [a EXCEPT !.lights = Cycle_next(@)]
      [] e.type = "PrevLight" -> [a EXCEPT !.lights = Cycle_prev(@)]
      [] e.type = "NextBackground" -> [a EXCEPT !.backgrounds = Cycle_next(@)]
      [] e.type = "PrevBackground" -> [a EXCEPT !.backgrounds = Cycle_prev(@)]
      [] e.type = "Reload" -> a
      [] e.type = "AppQuit" -> quit(a)
      [] e.type = "MoveLight" -> [a EXCEPT !.light_position = e.pos]
      [] e.type = "NewMinion" -> new_minion(a, e.pos)
      [] e.type = "NewResource" -> new_resource(a, e.pos)
      [] OTHER -> a

on_input_event(a, e) == [a EXCEPT !.input_state = InputState_event(@, e)]

to_view(a, x, y) == Viewport_to_world(a.viewport, x, y)

to_world(a, t) == VAdd(t, a.camera.position)

on_resize(a, width, height) ==
    [a EXCEPT !.viewport = rect(width, height, a.viewport.scale)]

\* The tables of the macros on_key_held! and on_key_pressed_once!.
HeldKeys ==
    << <<"Up", "CamUp">>, <<"Down", "CamDown">>, <<"Left", "CamLeft">>,
       <<"Right", "CamRight">> >>

OnceKeys ==
    << <<"F5", "Reload">>, <<"L", "NextLight">>, <<"B", "NextBackground">>,
       <<"K", "PrevLight">>, <<"V", "PrevBackground">>, <<"Esc", "AppQuit">> >>

RECURSIVE Translate(_, _, _)
\* The events one macro pushes: one per row of the table whose key answers.
Translate(table, st, held) ==
    IF Len(table) = 0 THEN <<>>
    ELSE LET row == Head(table)
             on == IF held THEN key_pressed(st, row[1]) ELSE key_once(st, row[1])
         IN  (IF on THEN <<Event(row[2])>> ELSE <<>>)
                 \o Translate(Tail(table), st, held)

RECURSIVE ReadOnce(_, _)
\* The input state after key_once was asked for every key of the table.
ReadOnce(table, st) ==
    IF Len(table) = 0 THEN st
    ELSE ReadOnce(Tail(table), key_once_read(st, Head(table)[1]))

\* update_input: the events are pushed to the local vector `events`, which
\* is dropped at the end of the function: none is passed to on_app_event.
\* world_pos is to_world of the mouse position itself; view_pos is not used.
update_input(a, dt) ==
    LET st == a.input_state
        cams == Translate(HeldKeys, st, TRUE)
        keys == Translate(OnceKeys, st, FALSE)
        mouse_pos == mouse_position(st)
        view_pos == to_view(a, mouse_pos[1], mouse_pos[2])
        world_pos == to_world(a, mouse_position(st))
        spawn == IF key_once(st, "MouseRight")
                 THEN IF any_ctrl_pressed(st)
                      THEN <<EventAt("NewMinion", world_pos)>>
                      ELSE <<EventAt("NewResource", world_pos)>>
                 ELSE <<>>
        light == IF key_pressed(st, "MouseLeft")
                 THEN <<EventAt("MoveLight", world_pos)>>
                 ELSE <<>>
        read == key_once_read(ReadOnce(OnceKeys, st), "MouseRight")
    IN  [app |-> [a EXCEPT !.input_state = read],
         events |-> cams \o keys \o spawn \o light,
         trace |-> <<>>]

\* Variant of update_systems that steps the physics before the AI.
update_systems_physics_first(a, dt) ==
    [app |-> [a EXCEPT !.ai = AiSystem_follow_me(@, a.light_position)],
     trace |-> << UpdateCall("animation", "update_world", dt),
                  UpdateCall("game", "update_world", dt),
                  UpdateCall("physics", "update_world", dt),
                  TargetCall("ai", "follow_me", a.light_position),
                  UpdateCall("ai", "update_world", dt) >>]

\* update_systems
update_systems(a, dt) ==
    [app |-> [a EXCEPT !.ai = AiSystem_follow_me(@, a.light_position)],
     trace |-> << UpdateCall("animation", "update_world", dt),
                  UpdateCall("game", "update_world", dt),
                  TargetCall("ai", "follow_me", a.light_position),
                  UpdateCall("ai", "update_world", dt),
                  UpdateCall("physics", "update_world", dt) >>]

\* init_systems
init_systems(a) ==
    [app |-> [a EXCEPT !.animation = System_init(@), !.ai = System_init(@),
                       !.game = System_init(@), !.physics = System_init(@)],
     trace |-> << TargetCall("animation", "init", Position(0, 0)),
                  TargetCall("ai", "init", Position(0, 0)),
                  TargetCall("game", "init", Position(0, 0)),
                  TargetCall("physics", "init", Position(0, 0)) >>]

\* Variant of update_frame that adds the smoothed time to frame_elapsed.
update_frame_smooth_ledger(a, now, frame_time) ==
    LET frame_time_smooth == MovingAverage_smooth(a.frame_smooth, frame_time)
        timed == [a EXCEPT !.frame_smooth = MovingAverage_push(@, frame_time),
                           !.frame_elapsed = RAdd(@, frame_time_smooth),
                           !.frame_start = now]
        moved == [timed EXCEPT !.camera = Inertial_update(@, frame_time_smooth)]
        input == update_input(moved, frame_time_smooth)
        systems == update_systems(input.app, frame_time_smooth)
        counted == [systems.app EXCEPT !.frame_count = @ + 1]
    IN  [app |-> counted,
         result |-> "Ok",
         trace |-> << UpdateCall("camera", "update", frame_time_smooth),
                      UpdateCall("app", "update_input", frame_time_smooth) >>
                   \o input.trace \o systems.trace,
         events |-> input.events,
         report |-> [frame_count |-> counted.frame_count,
                     wall_clock_elapsed |->
                         IF now < a.wall_clock_start THEN 0
                         ELSE now - a.wall_clock_start,
                     frame_elapsed |-> counted.frame_elapsed,
                     frame_time |-> frame_time,
                     frame_time_smooth |-> frame_time_smooth,
                     fps |-> RDiv(Num(1), frame_time_smooth)]]

\* update after the elapsed time is known: everything below try!. The second
\* reading of the clock, SystemTime::now(), is taken at the same instant.
update_frame(a, now, frame_time) ==
    LET frame_time_smooth == MovingAverage_smooth(a.frame_smooth, frame_time)
        timed == [a EXCEPT !.frame_smooth = MovingAverage_push(@, frame_time),
                           !.frame_elapsed = RAdd(@, Num(frame_time)),
                           !.frame_start = now]
        moved == [timed EXCEPT !.camera = Inertial_update(@, frame_time_smooth)]
        input == update_input(moved, frame_time_smooth)
        systems == update_systems(input.app, frame_time_smooth)
        counted == [systems.app EXCEPT !.frame_count = @ + 1]
    IN  [app |-> counted,
         result |-> "Ok",
         trace |-> << UpdateCall("camera", "update", frame_time_smooth),
                      UpdateCall("app", "update_input", frame_time_smooth) >>
                   \o input.trace \o systems.trace,
         events |-> input.events,
         report |-> [frame_count |-> counted.frame_count,
                     wall_clock_elapsed |->
                         IF now < a.wall_clock_start THEN 0
                         ELSE now - a.wall_clock_start,
                     frame_elapsed |-> counted.frame_elapsed,
                     frame_time |-> frame_time,
                     frame_time_smooth |-> frame_time_smooth,
                     fps |-> RDiv(Num(1), frame_time_smooth)]]

\* Variant of update that takes a clock set back for no time elapsed.
update_clamped(a, now) ==
    update_frame(a, now, IF now < a.frame_start THEN 0 ELSE now - a.frame_start)

\* update at the instant now. frame_start.elapsed() is an error when the
\* clock reads less than frame_start, and try! returns it at once.
update(a, now) ==
    IF now < a.frame_start
    THEN [app |-> a, result |-> "Err", trace |-> <<>>, events |-> <<>>,
          report |-> NoReport]
    ELSE update_frame(a, now, now - a.frame_start)


\* ------------------------------------------------- the actions of the App

\* The window the App is made for, App::new(w, h, scale), and the instant.
Windows == { <<4, 2>>, <<2, 2>> }
Scale == Num(2)
ConstructedAt == 1

\* What the clock may read when update is called; less than ConstructedAt
\* is a clock set back.
ClockReadings == {0, 1, 2, 4}

\* The events the callers of on_app_event pass.
EventPositions == { Position(1, 2) }
AppEvents ==
    { Event(t) : t \in {"CamUp", "CamDown", "CamLeft", "CamRight", "CamReset",
                        "NextLight", "PrevLight", "NextBackground",
                        "PrevBackground", "Reload", "AppQuit", "Select"} }
    \cup { EventAt(t, p) : t \in {"MoveLight", "NewMinion", "NewResource"},
                           p \in EventPositions }

\* The raw input the window delivers.
Keys == {"Up", "L", "MouseRight", "MouseLeft", "Ctrl"}
MousePositions == { Position(3, 1) }
InputEvents ==
    { [type |-> t, key |-> k, pos |-> Position(0, 0)] :
          t \in {"KeyDown", "KeyUp"}, k \in Keys }
    \cup { [type |-> "MouseMove", key |-> "none", pos |-> p] : p \in MousePositions }

NoArg ==
    [event |-> Event("none"), now |-> 0, width |-> 0, height |-> 0,
     input |-> [type |-> "none", key |-> "none", pos |-> Position(0, 0)]]

\* A caller calls one method of the App and the method returns r.
AppReturn(op, arg, r) ==
    /\ calls_made < MaxCalls
    /\ app' = r.app
    /\ app_call' = [op |-> op, arg |-> arg, pre |-> app, result |-> r.result,
                    trace |-> r.trace, events |-> r.events, report |-> r.report]
    /\ raw_times' = IF op = "update" /\ r.result = "Ok"
                    THEN Append(raw_times, r.report.frame_time)
                    ELSE raw_times
    /\ calls_made' = calls_made + 1
    /\ UNCHANGED <<seq, enabled, images, w, h, pool, dir_exists, files, alive,
                   assigned, call>>

OnAppEvent(e) ==
    /\ e \in AppEvents
    /\ AppReturn("on_app_event", [NoArg EXCEPT !.event = e], Done(on_app_event(app, e), <<>>))

OnInputEvent(e) ==
    /\ e \in InputEvents
    /\ AppReturn("on_input_event", [NoArg EXCEPT !.input = e], Done(on_input_event(app, e), <<>>))

OnResize(width, height) ==
    /\ <<width, height>> \in Windows
    /\ AppReturn("on_resize", [NoArg EXCEPT !.width = width, !.height = height],
                 Done(on_resize(app, width, height), <<>>))

Quit ==
    /\ alive
    /\ AppReturn("quit", NoArg, Done(quit(app), <<>>))

\* render and environment take &self: they read the App.
Render ==
    /\ alive
    /\ AppReturn("render", NoArg, Done(app, <<>>))

InitSystems ==
    /\ alive
    /\ LET r == init_systems(app)
       IN  AppReturn("init_systems", NoArg, Done(r.app, r.trace))

Update(now) ==
    /\ now \in ClockReadings
    /\ AppReturn("update", [NoArg EXCEPT !.now = now], update(app, now))

\* The window of the App while only the Capture is exercised.
IdleWindow == <<4, 2>>

\* No App method has been called on the App made by App::new.
AppAtRest(width, height) ==
    /\ app = App_new(width, height, Scale, ConstructedAt)
    /\ app_call = [op |-> "new", arg |-> NoArg, pre |-> app, result |-> "Ok",
                   trace |-> <<>>, events |-> <<>>, report |-> NoReport]
    /\ raw_times = <<>>
    /\ calls_made = 0

\* -------------------------------------------- the actions of the Capture

\* What the history keeps of a call: the method, its argument, the fields
\* before the call and what the call did.
CallRecord(op, arg, r) ==
    [op |-> op, arg |-> arg,
     pre |-> [seq |-> seq, enabled |-> enabled, images |-> images,
              dir_exists |-> dir_exists],
     flushes |-> r.flushes, mkdir |-> r.mkdir, errors |-> r.errors,
     reads |-> r.reads, spawns |-> Len(r.spawned), saved |-> r.saved]

\* The render loop calls one method and the method returns r. A panic on the
\* calling thread ends the process.
Return(op, arg, r) ==
    /\ seq' = r.seq
    /\ enabled' = r.enabled
    /\ images' = r.images
    /\ dir_exists' = r.dir_exists
    /\ files' = r.files
    /\ pool' = pool \o r.spawned
    /\ alive' = ~r.panicked
    /\ assigned' = assigned \o r.numbered
    /\ call' = CallRecord(op, arg, r)
    /\ UNCHANGED <<w, h, appvars>>

ScreenGrab ==
    /\ alive
    /\ enabled => seq < MaxSeq
    /\ \E buf \in ReadPixels(w, h) :
           Return("screen_grab", "none", screen_grab(Begin, w, h, buf))

Start ==
    /\ alive
    /\ Return("start", "none", start(Begin))

Stop ==
    /\ alive
    /\ \E mk \in MkdirOutcomes, failAt \in 0..Len(images) :
           Return("stop", "none", stop(Begin, mk, failAt))

Toggle ==
    /\ alive
    /\ \E mk \in MkdirOutcomes, failAt \in 0..Len(images) :
           Return("toggle", "none", toggle(Begin, mk, failAt))

Enable(flag) ==
    /\ alive
    /\ \E mk \in MkdirOutcomes, failAt \in 0..Len(images) :
           Return("enable", flag, enable(Begin, flag, mk, failAt))

\* The body of the closure t: the row flip loop, println! and
\* img.save(full_path).expect("Could not write image"). An Err panics in the
\* worker, and a panic in a rayon::spawn closure aborts the process (no panic
\* handler is installed).
run_task(t, ok) ==
    [pc |-> IF ok THEN "saved" ELSE "failed",
     files |-> IF ok THEN WriteFile(files, t.path, FlipRows(t.w, t.h, t.buf)) ELSE files,
     alive |-> ok]

\* A worker of the pool runs the k-th closure.
TaskRun(k) ==
    /\ alive
    /\ k \in 1..Len(pool)
    /\ pool[k].pc = "spawned"
    /\ \E ok \in SaveOutcomes :
           LET r == run_task(pool[k], ok)
           IN  /\ pool' = [pool EXCEPT ![k].pc = r.pc]
               /\ files' = r.files
               /\ alive' = r.alive
    /\ UNCHANGED <<seq, enabled, images, w, h, dir_exists, assigned, call, appvars>>

\* Capture::init, with nothing spawned and the capture directory not yet made.
Init ==
    /\ seq = 0
    /\ enabled = FALSE
    /\ images = <<>>
    /\ w \in 1..MaxDim
    /\ h \in 1..MaxDim
    /\ pool = <<>>
    /\ dir_exists = FALSE
    /\ files = <<>>
    /\ alive = TRUE
    /\ assigned = <<>>
    /\ call = [op |-> "init", arg |-> "none",
               pre |-> [seq |-> 0, enabled |-> FALSE, images |-> <<>>,
                        dir_exists |-> FALSE],
               flushes |-> 0, mkdir |-> "none", errors |-> 0,
               reads |-> 0, spawns |-> 0, saved |-> 0]
    /\ AppAtRest(IdleWindow[1], IdleWindow[2])

Next ==
    \/ ScreenGrab
    \/ Start
    \/ Stop
    \/ Toggle
    \/ \E flag \in BOOLEAN : Enable(flag)
    \/ \E k \in 1..MaxSeq : TaskRun(k)

Spec == Init /\ [][Next]_vars

\* The worker pool runs every closure it was given, as long as the process lives.
FairSpec == Spec /\ \A k \in 1..MaxSeq : WF_vars(TaskRun(k))

\* The App on its own: the Capture object is made and left alone.
AppInit ==
    /\ seq = 0
    /\ enabled = FALSE
    /\ images = <<>>
    /\ w = 1
    /\ h = 1
    /\ pool = <<>>
    /\ dir_exists = FALSE
    /\ files = <<>>
    /\ alive = TRUE
    /\ assigned = <<>>
    /\ call = [op |-> "init", arg |-> "none",
               pre |-> [seq |-> 0, enabled |-> FALSE, images |-> <<>>,
                        dir_exists |-> FALSE],
               flushes |-> 0, mkdir |-> "none", errors |-> 0,
               reads |-> 0, spawns |-> 0, saved |-> 0]
    /\ AppAtRest(IdleWindow[1], IdleWindow[2])

AppNext ==
    \/ \E e \in AppEvents : OnAppEvent(e)
    \/ \E e \in InputEvents : OnInputEvent(e)
    \/ \E win \in Windows : OnResize(win[1], win[2])
    \/ Quit
    \/ Render
    \/ InitSystems
    \/ \E now \in ClockReadings : Update(now)

AppSpec == AppInit /\ [][AppNext]_vars

\* ------------------------------------------------------------- properties

Spawned(k) == k \in 1..Len(pool)
Saved(k) == Spawned(k) /\ pool[k].pc = "saved"
Failed(k) == Spawned(k) /\ pool[k].pc = "failed"

RECURSIVE LexLess(_, _)
\* Byte-wise lexicographic order of two names.
LexLess(a, b) ==
    IF Len(a) = 0 THEN Len(b) > 0
    ELSE IF Len(b) = 0 THEN FALSE
    ELSE IF Head(a) # Head(b) THEN Head(a) < Head(b)
    ELSE LexLess(Tail(a), Tail(b))

\* The fields of the Capture are as they were before the last call.
CaptureUntouched ==
    /\ seq = call.pre.seq
    /\ enabled = call.pre.enabled
    /\ images = call.pre.images
    /\ dir_exists = call.pre.dir_exists

\* C1: over any sequence of Capture calls the sequence counter never decreases
\* and is never reset, and every number given to an image is strictly greater
\* than every number given earlier, across stop/start cycles too.
C1_SeqStrictlyIncreasing ==
    /\ [][seq' >= seq]_vars
    /\ [](\A a, b \in 1..Len(assigned) : a < b => assigned[a] < assigned[b])
    /\ [](\A a \in 1..Len(assigned) : assigned[a] <= seq)

\* A grab numbered after an earlier grab and a flush (so a stop and a later
\* start lie behind it).
C1_Witness ==
    /\ call.op = "screen_grab"
    /\ call.spawns = 1
    /\ call.pre.seq >= 1
    /\ call.pre.dir_exists
    /\ Len(assigned) >= 2

\* C2: no two tasks have the same destination path, every written file holds
\* the image of the one task that was given its path, and the written files
\* ordered by file name are in the order of the screen_grab calls, whichever
\* tasks have completed.
C2_DistinctOrderedPaths ==
    /\ \A a, b \in 1..Len(pool) : a # b => pool[a].path # pool[b].path
    /\ DOMAIN files = { pool[k].path : k \in { n \in 1..Len(pool) : Saved(n) } }
    /\ \A k \in 1..Len(pool) :
           Saved(k) => files[pool[k].path] = FlipRows(pool[k].w, pool[k].h, pool[k].buf)
    /\ \A a, b \in 1..Len(pool) :
           (a < b /\ Saved(a) /\ Saved(b)) => LexLess(pool[a].path[2], pool[b].path[2])

\* The second and third grabs are on disk while the first is still in the pool.
C2_Witness ==
    /\ Len(pool) = 3
    /\ pool[1].pc = "spawned"
    /\ Saved(2)
    /\ Saved(3)

\* C3: whenever a task spawned by screen_grab performs its save, the capture
\* directory exists.
C3_DirExistsAtSave ==
    [][\A k \in 1..Len(pool) :
           (pool[k].pc = "spawned" /\ pool'[k].pc # "spawned") => dir_exists]_vars

\* C4: a failed image write is only logged: the process keeps running (so the
\* sibling writes and the frame loop go on).
C4_WriteFailureIsolated == (\E k \in 1..Len(pool) : Failed(k)) => alive

\* C5: screen_grab while Disabled changes no field of the Capture, reads no
\* framebuffer and spawns no task.
C5_DisabledGrabIsNoOp ==
    (call.op = "screen_grab" /\ ~call.pre.enabled) =>
        /\ CaptureUntouched
        /\ call.reads = 0
        /\ call.spawns = 0
        /\ call.flushes = 0

\* A grab while Disabled after images were grabbed earlier.
C5_Witness ==
    /\ call.op = "screen_grab"
    /\ ~call.pre.enabled
    /\ call.pre.seq >= 1

\* C6 as stated: enable(current state) is a no-op, enable(true) flushes once
\* on the transition to Enabled and not on a redundant call, and after
\* enable(flag) the capture reports flag.
C6_EnableFlushesOnTrueTransition ==
    call.op = "enable" =>
        /\ is_enabled(Begin) = call.arg
        /\ call.arg = call.pre.enabled => (CaptureUntouched /\ call.flushes = 0)
        /\ (call.arg /\ ~call.pre.enabled) => call.flushes = 1

\* C6 amended: enable(current state) is a no-op, the only flush is the one of
\* the transition to Disabled (enable(true) never flushes), and after
\* enable(flag) the capture reports flag.
C6_EnableFlushesOnFalseTransition ==
    call.op = "enable" =>
        /\ is_enabled(Begin) = call.arg
        /\ call.arg = call.pre.enabled => (CaptureUntouched /\ call.flushes = 0)
        /\ call.flushes = (IF call.pre.enabled /\ ~call.arg THEN 1 ELSE 0)
        /\ call.reads = 0 /\ call.spawns = 0 /\ seq = call.pre.seq

\* enable(true) has just switched recording on, without a flush.
C6_Witness ==
    /\ call.op = "enable"
    /\ call.arg = TRUE
    /\ ~call.pre.enabled
    /\ enabled
    /\ call.flushes = 0

\* C7 as stated: every stop() leaves the capture Disabled, flushes, leaves the
\* capture directory in place and the buffered-image list empty.
C7_StopAlwaysFlushes ==
    call.op = "stop" =>
        /\ ~enabled
        /\ call.flushes = 1
        /\ dir_exists
        /\ images = <<>>

\* C7 amended: every stop() leaves the capture Disabled and the buffered-image
\* list empty; it flushes exactly when the capture was Enabled, and then the
\* directory exists afterwards unless its creation failed; a stop() while
\* Disabled touches nothing.
C7_StopFlushesWhenEnabled ==
    call.op = "stop" =>
        /\ ~enabled
        /\ images = <<>>
        /\ call.flushes = (IF call.pre.enabled THEN 1 ELSE 0)
        /\ (call.pre.enabled /\ call.mkdir = "ok") => dir_exists
        /\ ~call.pre.enabled => (CaptureUntouched /\ call.mkdir = "none")

\* stop() while Enabled has just created the capture directory.
C7_Witness ==
    /\ call.op = "stop"
    /\ call.pre.enabled
    /\ ~call.pre.dir_exists
    /\ call.mkdir = "ok"
    /\ dir_exists

\* C8: when create_dir_all fails in a flush, one error is logged, no buffered
\* image is written, no sequence number is used, the buffered-image list is
\* empty afterwards and the capture is Disabled.
C8_MkdirFailureDropsBuffer ==
    call.mkdir = "err" =>
        /\ call.flushes = 1
        /\ call.errors = 1
        /\ call.saved = 0
        /\ seq = call.pre.seq
        /\ images = <<>>
        /\ ~dir_exists
        /\ ~enabled

\* stop() after a grab, with the directory creation failing.
C8_Witness ==
    /\ call.op = "stop"
    /\ call.mkdir = "err"
    /\ call.pre.seq >= 1
    /\ ~enabled

\* The RGB triple of framebuffer row r, column c of a row-major readback of
\* width ww.
FramebufferPixel(buf, ww, r, c) ==
    << buf[Channels * (r * ww + c) + 1],
       buf[Channels * (r * ww + c) + 2],
       buf[Channels * (r * ww + c) + 3] >>

\* C9: the image a task saves has, at column j and row i, the RGB triple of
\* framebuffer row h-1-i, column j of the buffer read by its screen_grab.
C9_RowsMirrored ==
    \A k \in 1..Len(pool) :
        Saved(k) =>
            LET img == files[pool[k].path]
            IN  /\ Len(pool[k].buf) = w * h * Channels
                /\ DOMAIN img = (0..(w - 1)) \X (0..(h - 1))
                /\ \A j \in 0..(w - 1), i \in 0..(h - 1) :
                       img[<<j, i>>] = FramebufferPixel(pool[k].buf, w, h - 1 - i, j)

\* A 2x2 image is on disk whose top row is the last row read (P2, P3) and
\* whose bottom row is the first (P0, P1).
C9_Witness ==
    /\ w = 2
    /\ h = 2
    /\ Saved(1)
    /\ LET img == files[pool[1].path]
           buf == pool[1].buf
       IN  /\ img[<<0, 0>>] = <<buf[7], buf[8], buf[9]>>
           /\ img[<<1, 0>>] = <<buf[10], buf[11], buf[12]>>
           /\ img[<<0, 1>>] = <<buf[1], buf[2], buf[3]>>
           /\ img[<<1, 1>>] = <<buf[4], buf[5], buf[6]>>
           /\ img[<<0, 0>>] # img[<<0, 1>>]

\* C10: every task spawned by screen_grab eventually performs its write,
\* whatever the render loop calls meanwhile.
C10_EveryTaskWrites ==
    \A k \in 1..MaxSeq : Spawned(k) ~> (Spawned(k) /\ pool[k].pc # "spawned")

\* C17: the capture starts Disabled; start() leaves it Enabled from either
\* state without a flush and without a change of seq; toggle() flips the
\* state and flushes exactly when it leaves Enabled, so the second of two
\* toggle() calls in a row restores the state the first one found; and
\* enabled() reports the state.
C17_TwoStateMachine ==
    /\ [](/\ call.op = "init" => ~enabled
          /\ call.op = "start" =>
                 (enabled /\ call.flushes = 0 /\ seq = call.pre.seq)
          /\ call.op = "toggle" =>
                 /\ enabled = ~call.pre.enabled
                 /\ call.flushes = (IF call.pre.enabled THEN 1 ELSE 0)
          /\ is_enabled(Begin) = enabled)
    /\ [][(call.op = "toggle" /\ call'.op = "toggle" /\ call' # call)
              => enabled' = call.pre.enabled]_vars

\* A toggle() has found the capture Enabled, with grabs made, and left it
\* Disabled after one flush.
C17_Witness ==
    /\ call.op = "toggle"
    /\ call.pre.enabled
    /\ call.pre.seq > 0
    /\ ~enabled
    /\ call.flushes = 1

\* C20: images is always empty, so no flush writes a file or takes a
\* sequence number; every screen_grab made while Enabled, and nothing else,
\* adds one to seq and spawns one task, so that seq counts those calls and
\* the tasks; the n-th of them is numbered n, and the first file name ends
\* in 00000001.png.
C20_SeqCountsEnabledGrabs ==
    /\ [](/\ images = <<>>
          /\ call.saved = 0
          /\ call.op # "screen_grab" => seq = call.pre.seq
          /\ Len(pool) = seq
          /\ assigned = [n \in 1..seq |-> n]
          /\ \A n \in 1..Len(pool) : pool[n].path = FullPath(n)
          /\ Len(pool) > 0 =>
                 pool[1].path[2] = capture_prefix
                     \o <<48, 48, 48, 48, 48, 48, 48, 49>> \o PngSuffix)
    /\ [][/\ seq' # seq => (call'.op = "screen_grab" /\ call'.pre.enabled)
          /\ (call'.op = "screen_grab" /\ call'.pre.enabled /\ call' # call)
                 => (seq' = seq + 1 /\ Len(pool') = Len(pool) + 1)]_vars

\* A flush has run after two grabs made while Enabled: it wrote nothing and
\* the counter still is the number of those grabs.
C20_Witness ==
    /\ call.op = "stop"
    /\ call.flushes = 1
    /\ call.pre.enabled
    /\ seq = 2
    /\ Len(pool) = 2

\* ------------------------------------------------ properties of the App

\* The last call was an update() that returned Ok.
UpdateOk == app_call.op = "update" /\ app_call.result = "Ok"

\* The calls the last method made on the subsystems, in the order made.
SubsystemCalls ==
    SelectSeq(app_call.trace,
              LAMBDA c : c.sys \in {"animation", "game", "ai", "physics"})

\* C11: an update() that returns Ok calls, once each and in this order,
\* Animation.update_world, Game.update_world, AI.follow_me with the light
\* position of that moment, AI.update_world and Physics.update_world, every
\* update_world with dt = frame_time_smooth; the physics call is the last
\* call of the update.
C11_PipelineOrder ==
    UpdateOk =>
        LET dt == app_call.report.frame_time_smooth
        IN  /\ SubsystemCalls =
                   << UpdateCall("animation", "update_world", dt),
                      UpdateCall("game", "update_world", dt),
                      TargetCall("ai", "follow_me", app.light_position),
                      UpdateCall("ai", "update_world", dt),
                      UpdateCall("physics", "update_world", dt) >>
            /\ app_call.trace[Len(app_call.trace)].sys = "physics"
            /\ app.ai.target = app.light_position

\* A second update() has run the pipeline after the light was moved: the
\* step is a smoothed one and the AI follows the new light position.
C11_Witness ==
    /\ UpdateOk
    /\ app.frame_count = 2
    /\ app_call.report.frame_time_smooth # Num(app_call.report.frame_time)
    /\ app.light_position # Position(LightStart, LightStart)
    /\ app.ai.target = app.light_position

\* The clock read less than frame_start when the last update() was called.
ClockSetBack == app_call.op = "update" /\ app_call.arg.now < app_call.pre.frame_start

\* C12: an update() called while the clock reads less than frame_start
\* returns the error and leaves the App as it was: frame_count,
\* frame_elapsed, the smoother, frame_start, the camera and the input state
\* are unchanged, no event is built and no call is made on the camera, the
\* input translator or a subsystem.
C12_ClockErrorChangesNothing ==
    ClockSetBack =>
        /\ app_call.result = "Err"
        /\ app.frame_count = app_call.pre.frame_count
        /\ app.frame_elapsed = app_call.pre.frame_elapsed
        /\ app.frame_smooth = app_call.pre.frame_smooth
        /\ app.camera = app_call.pre.camera
        /\ app.input_state = app_call.pre.input_state
        /\ app = app_call.pre
        /\ app_call.trace = <<>>
        /\ app_call.events = <<>>
        /\ Len(raw_times) = app.frame_count

\* After one good frame and a key press not yet read, update() has met a
\* clock set back: the frame is not counted and the press still is unread.
C12_Witness ==
    /\ ClockSetBack
    /\ app_call.result = "Err"
    /\ app.frame_count = 1
    /\ app.input_state.once # {}

\* Number of entities of one kind in a World.
CountKind(world, kind) == Len(SelectSeq(world, LAMBDA en : en.kind = kind))

\* Number of events of one type built by the last update().
Built(type) == Len(SelectSeq(app_call.events, LAMBDA e : e.type = type))

\* C13: the events update_input builds in an update() are all handled by
\* on_app_event within that update(), in the order built, after the camera
\* was advanced and before the subsystems run: the App after the update is
\* the App with the camera advanced and the events handled one by one, the
\* AI was given the light position the events left, and the World has one
\* more minion for a right mouse press with the modifier held and one more
\* resource for a press without it.
C13_EventsDispatched ==
    UpdateOk =>
        LET events == app_call.events
            advanced == [app_call.pre EXCEPT
                            !.camera = Inertial_update(@, app_call.report.frame_time_smooth)]
            handled[i \in 0..Len(events)] ==
                IF i = 0 THEN advanced ELSE on_app_event(handled[i - 1], events[i])
            expected == handled[Len(events)]
        IN  /\ app.camera = expected.camera
            /\ app.lights = expected.lights
            /\ app.backgrounds = expected.backgrounds
            /\ app.light_position = expected.light_position
            /\ app.is_running = expected.is_running
            /\ app.world = expected.world
            /\ app.physics.registered = expected.physics.registered
            /\ app.ai.target = expected.light_position
            /\ CountKind(app.world, "minion")
                   = CountKind(app_call.pre.world, "minion") + Built("NewMinion")
            /\ CountKind(app.world, "resource")
                   = CountKind(app_call.pre.world, "resource") + Built("NewResource")

\* C14: the position carried by every NewMinion, NewResource and MoveLight
\* event that update_input builds is the mouse position taken through
\* Viewport::to_world, plus the position of the camera.
C14_WorldPositionComposed ==
    UpdateOk =>
        LET mouse == mouse_position(app.input_state)
            composed == VAdd(Viewport_to_world(app.viewport, mouse[1], mouse[2]),
                             app.camera.position)
        IN  \A i \in 1..Len(app_call.events) :
                app_call.events[i].type \in {"NewMinion", "NewResource", "MoveLight"}
                    => app_call.events[i].pos = composed

\* C15: frame_count is 0 in a new App, grows by exactly one in an update()
\* that returns Ok and is left alone by every other call (an event, a raw
\* input event, a resize, a render, quit, init_systems, an update() that
\* returns Err): it never decreases, and it and the frame_count of the
\* Update report are the number of update() calls that returned Ok so far.
C15_FrameCountCountsUpdates ==
    /\ app_call.op = "new" => app.frame_count = 0
    /\ UpdateOk =>
           /\ app.frame_count = app_call.pre.frame_count + 1
           /\ app_call.report.frame_count = Len(raw_times)
    /\ ~UpdateOk => app.frame_count = app_call.pre.frame_count
    /\ app.frame_count >= app_call.pre.frame_count
    /\ app.frame_count = Len(raw_times)

\* Two frames have been counted and the last call, an AppQuit event, has
\* left the count at two.
C15_Witness ==
    /\ app.frame_count = 2
    /\ app_call.op = "on_app_event"
    /\ app_call.arg.event.type = "AppQuit"
    /\ ~app.is_running

\* How often init has run on each of the four subsystems.
InitRuns ==
    << app.animation.inits, app.ai.inits, app.game.inits, app.physics.inits >>

\* C16: no subsystem has its init run twice, and whenever an update() has
\* called update_world on the subsystems, init_systems has run before it:
\* the init of each of Animation, AI, Game and Physics has run exactly once.
C16_InitOnceBeforeUpdate ==
    /\ \A i \in 1..Len(InitRuns) : InitRuns[i] <= 1
    /\ (UpdateOk /\ Len(SubsystemCalls) > 0) =>
           \A i \in 1..Len(InitRuns) : InitRuns[i] = 1

\* The fields of App the handler of an event of this type may assign.
Touched(type) ==
    CASE type \in {"CamUp", "CamDown", "CamLeft", "CamRight", "CamReset"} -> {"camera"}
      [] type \in {"NextLight", "PrevLight"} -> {"lights"}
      [] type \in {"NextBackground", "PrevBackground"} -> {"backgrounds"}
      [] type = "MoveLight" -> {"light_position"}
      [] type \in {"NewMinion", "NewResource"} -> {"world", "physics"}
      [] type = "AppQuit" -> {"is_running"}
      [] OTHER -> {}

\* C18: on_app_event assigns one piece of the App per event: a Cam* event
\* the camera, Next/PrevLight the lights selector, Next/PrevBackground the
\* backgrounds selector, MoveLight the light position, NewMinion and
\* NewResource the World and the registration with the physics, AppQuit
\* is_running, which it makes false; Reload and any other event nothing.
\* No handler changes frame_count or frame_elapsed, and no call of any
\* method makes is_running true again.
C18_HandlerTouchesOnePiece ==
    /\ app_call.op = "on_app_event" =>
           LET e == app_call.arg.event
           IN  /\ \A f \in (DOMAIN app) \ Touched(e.type) : app[f] = app_call.pre[f]
               /\ app.frame_count = app_call.pre.frame_count
               /\ app.frame_elapsed = app_call.pre.frame_elapsed
               /\ e.type = "AppQuit" => ~app.is_running
               /\ e.type = "MoveLight" => app.light_position = e.pos
               /\ e.type \in {"NewMinion", "NewResource"} =>
                      /\ Len(app.world) = Len(app_call.pre.world) + 1
                      /\ app.physics.registered
                             = Append(app_call.pre.physics.registered, Len(app.world))
                      /\ app.physics.inits = app_call.pre.physics.inits
    /\ ~app_call.pre.is_running => ~app.is_running

\* After a frame, a NewMinion event has put one minion into the World at the
\* position it carries and registered it, and the light is where it was.
C18_Witness ==
    /\ app_call.op = "on_app_event"
    /\ app_call.arg.event.type = "NewMinion"
    /\ app.frame_count = 1
    /\ app.world = <<[kind |-> "minion", pos |-> app_call.arg.event.pos]>>
    /\ app.physics.registered = <<1>>
    /\ app.light_position = Position(LightStart, LightStart)

\* The calls of the last update() that take the time step.
TimedCalls ==
    SelectSeq(app_call.trace,
              LAMBDA c : c.op \in {"update", "update_input", "update_world"})

\* C19: frame_elapsed is the sum of the raw frame_time of the update()
\* calls that returned Ok, the smoothed time is never added to it, and the
\* frame_elapsed of an Update report already holds that update's
\* frame_time; the camera, update_input and every update_world are given
\* frame_time_smooth, the moving average of the raw times.
C19_ElapsedIsRawSum ==
    /\ app.frame_elapsed = Num(SumSeq(raw_times))
    /\ UpdateOk =>
           LET report == app_call.report
           IN  /\ report.frame_time = app_call.arg.now - app_call.pre.frame_start
               /\ report.frame_elapsed
                      = RAdd(app_call.pre.frame_elapsed, Num(report.frame_time))
               /\ report.frame_elapsed = app.frame_elapsed
               /\ report.frame_time_smooth
                      = MovingAverage_smooth(app_call.pre.frame_smooth, report.frame_time)
               /\ Len(TimedCalls) > 0
               /\ \A i \in 1..Len(TimedCalls) :
                      TimedCalls[i].dt = report.frame_time_smooth

\* A second frame whose smoothed time differs from its raw time: the ledger
\* grew by the raw time.
C19_Witness ==
    /\ UpdateOk
    /\ Len(raw_times) = 2
    /\ app_call.report.frame_time_smooth # Num(app_call.report.frame_time)
    /\ app.frame_elapsed # RAdd(app_call.pre.frame_elapsed, app_call.report.frame_time_smooth)
    /\ app.frame_elapsed = RAdd(app_call.pre.frame_elapsed, Num(app_call.report.frame_time))

====
